---- MODULE Spec2Model ----
(***************************************************************************)
(* The server-simulated Pong of the transcendence backend: the game        *)
(* objects (Paddle, Ball), the Game state machine, and the GameService     *)
(* (matchmaking queue, registry maps, scheduler loop) together with the    *)
(* GameWebsocketGateway handlers that drive it.                            *)
(*                                                                         *)
(* Every handler of the program runs to completion on the single Node.js   *)
(* event loop, so every handler is one action.                             *)
(*                                                                         *)
(* Positions are floating-point numbers in the program.  Here they are     *)
(* fixed-point numbers with a resolution of one court unit: a quotient or  *)
(* a square root is rounded to the nearest unit.  Directions are unit      *)
(* vectors with rational components, held as integers over DirScale.       *)
(***************************************************************************)
EXTENDS Integers, Sequences, FiniteSets, TLC

VARIABLES
    queue,        \* GameService.queue: the waiting identity, or Null
    games,        \* GameService.games: Map id -> Game, as the insertion-ordered
                  \*   sequence of its entries [id, ref]
    usersToGame,  \* GameService.usersToGame: identity -> Game (a ref), or Null
    heap,         \* the Game objects alive in memory, by reference
    status,       \* SocketData.status of each identity's socket ("OFFLINE":
                  \*   the identity has no live socket)
    rooms,        \* the socket.io rooms each identity's live socket has joined
    out,          \* what the last handled event did that is visible outside,
                  \*   in program order: broadcasts and registry removals
    running       \* FALSE once the process has stopped (exit(), or an
                  \*   exception thrown out of the scheduler loop)

vars == <<queue, games, usersToGame, heap, status, rooms, out, running>>

Null == "null"
\* No Game object.
NoRef == 0

-----------------------------------------------------------------------------
(* Bounds of the model *)

\* How many identities connect to the server.
NumUsers == 3
\* How many of them connect where the clients steer their paddles.
NumRivals == 2
\* How many Game objects memory holds at once (registered, or unregistered
\* but still referenced by a pending timer).
MaxGames == 2
\* The longest time between two scheduler iterations, in time quanta.
MaxDt == 1
\* The time units of a quantum, the time between two scheduler iterations of
\* the server under load; the physics is also checked on shorter ticks.
Quantum == 10
\* How many of the headings the random source of the ball's direction draws.
NumHeadings == 1
\* How many of the movement values the clients send.
NumMoves == 1
\* The depth of Ball.move's recursion at which the call stack overflows.
MaxDepth == 12
\* The spacing of the places the ball is put at, where one tick is checked
\* from every state of the court.
GridStep == 4
\* The spacing of the places a paddle is put at.
PaddleStep == 7

-----------------------------------------------------------------------------
(* Constants of the program.  GameDim, GameSpeed and GameTimings come from  *)
(* the contract package; the court here is a scaled-down one.              *)

CourtWidth == 32        \* GameDim.court.width
CourtHeight == 20       \* GameDim.court.height
PaddleWidth == 2        \* GameDim.paddle.width
PaddleHeight == 6       \* GameDim.paddle.height
BallSideLength == 2     \* GameDim.ballSideLength
BallSpeed == 3          \* GameSpeed.ball / 1000, per time unit
PaddleSpeed == 1        \* GameSpeed.paddle / 1000, per time unit
InitTimeout == 10       \* GameTimings.initTimeout, in time units
BreakTimeout == 10      \* GameTimings.breakTimeout, in time units

maxScore == 10          \* Game.maxScore
PaddleLimitMargin == 3  \* the 3 of topPaddleLimit and botPaddleLimit
PushGap == 1            \* the 1 a pushed ball is set away from the paddle
FatalX == 1800          \* the x beyond which Ball.move calls exit()

\* Direction components are integers over DirScale.
DirScale == 5

AllNames == <<"a", "b", "ab", "ba", "c">>
Users == {AllNames[i] : i \in 1..NumUsers}
Rivals == {AllNames[i] : i \in 1..NumRivals}
Refs == 1..MaxGames
DeltaTimes == {Quantum * k : k \in 0..MaxDt}
MoveOrder == <<"UP", "DOWN", "NONE">>
Movements == {MoveOrder[i] : i \in 1..(IF NumMoves < 3 THEN NumMoves ELSE 3)}

-----------------------------------------------------------------------------
(* Arithmetic *)

Abs(n) == IF n < 0 THEN -n ELSE n

\* a / b rounded to the nearest integer (b # 0).
RoundDiv(a, b) ==
    LET n == IF b < 0 THEN -a ELSE a
        d == Abs(b)
    IN  (2 * n + d) \div (2 * d)

\* Math.sqrt(n) rounded to the nearest integer.
RECURSIVE SqrtFrom(_, _)
SqrtFrom(n, r) == IF (r + 1) * (r + 1) <= n THEN SqrtFrom(n, r + 1) ELSE r
RoundSqrt(n) ==
    LET r == SqrtFrom(n, 0)
    IN  IF n - r * r > (r + 1) * (r + 1) - n THEN r + 1 ELSE r

-----------------------------------------------------------------------------
(* GameObject *)

getRectFromOffsetAndPos(position, xOffset, yOffset) ==
    [topY   |-> position.y - yOffset,
     botY   |-> position.y + yOffset,
     leftX  |-> position.x - xOffset,
     rightX |-> position.x + xOffset]

doesBallCollideWithPaddle(ball, paddle) ==
    /\ ball.leftX <= paddle.rightX
    /\ ball.rightX >= paddle.leftX
    /\ ball.topY <= paddle.botY
    /\ ball.botY >= paddle.topY

\* The wall test that knows the top wall only
doesBallCollideWithTopBotWalls_topOnly(ball) == ball.topY <= 0

doesBallCollideWithTopBotWalls(ball) ==
    ball.topY <= 0 \/ ball.botY >= CourtHeight

-----------------------------------------------------------------------------
(* Paddle.  A paddle is [position, movement]; g is the Game that owns it,  *)
(* side is "A" (left, playerA) or "B" (right, playerB).                    *)

PaddleXOffset == PaddleWidth \div 2
PaddleYOffset == PaddleHeight \div 2
BallOffset == BallSideLength \div 2

PaddleStart(side) ==
    [x |-> IF side = "A" THEN PaddleXOffset ELSE CourtWidth - PaddleXOffset,
     y |-> CourtHeight \div 2]
BallStart ==
    [x |-> CourtWidth \div 2 - BallOffset, y |-> CourtHeight \div 2 - BallOffset]

PaddleOf(g, side) == IF side = "A" THEN g.paddleA ELSE g.paddleB
WithPaddle(g, side, p) ==
    IF side = "A" THEN [g EXCEPT !.paddleA = p] ELSE [g EXCEPT !.paddleB = p]

PaddleGetRect(p) == getRectFromOffsetAndPos(p.position, PaddleXOffset, PaddleYOffset)
BallGetRect(b) == getRectFromOffsetAndPos(b.position, BallOffset, BallOffset)

\* The setter that lets the ball hold the paddle: a new rectangle that
\* overlaps the ball leaves the paddle where it was
PaddleSetPosition_heldByBall(g, side, newPosition) ==
    LET p == PaddleOf(g, side)
        moved == WithPaddle(g, side, [p EXCEPT !.position = newPosition])
        newRect == getRectFromOffsetAndPos(newPosition, PaddleXOffset, PaddleYOffset)
    IN  IF ~g.ball.passedPaddleLine THEN moved
        ELSE IF doesBallCollideWithPaddle(BallGetRect(g.ball), newRect) THEN g
        ELSE moved

\* set position(newPosition)
PaddleSetPosition(g, side, newPosition) ==
    LET p == PaddleOf(g, side)
        rect == PaddleGetRect(p)
        np == IF rect.topY < 0
                THEN [newPosition EXCEPT !.y = PaddleYOffset]
              ELSE IF rect.botY > CourtHeight
                THEN [newPosition EXCEPT !.y = CourtHeight - PaddleYOffset]
              ELSE IF newPosition.x # p.position.x
                THEN [newPosition EXCEPT !.x = p.position.x]
              ELSE newPosition
        moved == WithPaddle(g, side, [p EXCEPT !.position = np])
        newRect == getRectFromOffsetAndPos(np, PaddleXOffset, PaddleYOffset)
        isUp == p.movement = "UP"
        isBallUpper == g.ball.position.y < p.position.y
        topPaddleLimit == BallSideLength + PaddleLimitMargin
        botPaddleLimit == CourtHeight - BallSideLength - PaddleLimitMargin
        newBallY == IF isUp THEN newRect.topY - BallOffset - PushGap
                            ELSE newRect.botY + BallOffset + PushGap
    IN  IF ~g.ball.passedPaddleLine THEN moved
        ELSE IF /\ (isUp /\ isBallUpper) \/ (~isUp /\ ~isBallUpper)
                /\ (isUp /\ newRect.topY < topPaddleLimit)
                     \/ (~isUp /\ newRect.botY > botPaddleLimit)
          THEN g
        ELSE IF ~doesBallCollideWithPaddle(BallGetRect(g.ball), newRect)
          THEN moved
        ELSE [moved EXCEPT !.ball.position.y = newBallY]

\* Paddle.update(deltaTime)
PaddleUpdate(g, side, deltaTime) ==
    LET p == PaddleOf(g, side)
        ySign == IF p.movement = "UP" THEN -1 ELSE 1
    IN  IF p.movement = "NONE" THEN g
        ELSE PaddleSetPosition(g, side,
                [x |-> p.position.x,
                 y |-> p.position.y + ySign * PaddleSpeed * deltaTime])

-----------------------------------------------------------------------------
(* What a handler does, in program order: the broadcasts to the Game's     *)
(* room (updatedGamePositions, updatedGameStatus), the calls of Game.score *)
(* ("score", who: the player credited) and the dispatches of game.end.     *)
(* Each carries the status the Game had at that point (from) and its       *)
(* scores; a status broadcast carries the new status (to) and, for END,    *)
(* the winner (who).  passed is the ball's passedPaddleLine at that point,  *)
(* ball, paddleLeft and paddleRight the positions.                         *)

Effect(ev, g, to, who) ==
    [ev |-> ev, id |-> g.id, from |-> g.status, to |-> to, who |-> who,
     playerA |-> g.playerA, playerB |-> g.playerB,
     scoreA |-> g.scoreA, scoreB |-> g.scoreB,
     passed |-> g.ball.passedPaddleLine,
     ball |-> g.ball.position,
     paddleLeft |-> g.paddleA.position, paddleRight |-> g.paddleB.position]

emitGamePositions(g) == Effect("updatedGamePositions", g, Null, Null)

(* A computation inside one Game.update call: the Game object g, the       *)
(* effects so far, whether game.end was dispatched, whether exit() was     *)
(* called, whether the call stack overflowed, and the intersection         *)
(* positions Ball.move has assigned to the ball.                           *)
Ctx(g) == [g |-> g, out |-> <<>>, ended |-> FALSE, fatal |-> FALSE,
           overflow |-> FALSE, resolved |-> <<>>]

-----------------------------------------------------------------------------
(* Game.status setter *)

\* The status setter without the setTimeout of its INIT case
SetStatus_forgetsInitTimer(c, newStatus) ==
    LET g == c.g
        winner == IF g.scoreA > g.scoreB THEN g.playerA ELSE g.playerB
        emits ==
            CASE newStatus = "INIT" ->
                   <<emitGamePositions(g), Effect("updatedGameStatus", g, "INIT", Null)>>
              [] newStatus = "END" ->
                   <<Effect("updatedGameStatus", g, "END", winner)>>
              [] OTHER ->
                   <<Effect("updatedGameStatus", g, newStatus, Null)>>
        armed == IF newStatus = "BREAK" THEN g.timers + 1 ELSE g.timers
        left == IF newStatus = "BREAK" THEN BreakTimeout ELSE g.timerLeft
    IN  [c EXCEPT !.out = c.out \o emits,
                  !.g = [g EXCEPT !.timers = armed,
                                  !.timerLeft = left,
                                  !.lastUpdateTime = Null,
                                  !.status = newStatus]]

SetStatus(c, newStatus) ==
    LET g == c.g
        winner == IF g.scoreA > g.scoreB THEN g.playerA ELSE g.playerB
        emits ==
            CASE newStatus = "INIT" ->
                   <<emitGamePositions(g), Effect("updatedGameStatus", g, "INIT", Null)>>
              [] newStatus = "END" ->
                   <<Effect("updatedGameStatus", g, "END", winner)>>
              [] OTHER ->
                   <<Effect("updatedGameStatus", g, newStatus, Null)>>
        armed == IF newStatus \in {"INIT", "BREAK"} THEN g.timers + 1 ELSE g.timers
        \* setTimeout: the callbacks a Game waits for are armed by one handler,
        \* and are due together
        left == CASE newStatus = "INIT" -> InitTimeout
                  [] newStatus = "BREAK" -> BreakTimeout
                  [] OTHER -> g.timerLeft
    IN  [c EXCEPT !.out = c.out \o emits,
                  !.g = [g EXCEPT !.timers = armed,
                                  !.timerLeft = left,
                                  !.lastUpdateTime = Null,
                                  !.status = newStatus]]

-----------------------------------------------------------------------------
(* Ball.  A ball is [position, direction, passedPaddleLine].               *)

\* The headings Math.random() leads to: unit vectors (cos, sin), of which
\* the model draws the first NumHeadings.
HeadingOrder ==
    <<[x |-> 4, y |-> -3], [x |-> -4, y |-> 3], [x |-> 3, y |-> -4],
      [x |-> -3, y |-> -4], [x |-> 3, y |-> 4], [x |-> -4, y |-> -3],
      [x |-> 4, y |-> 3], [x |-> -3, y |-> 4], [x |-> 5, y |-> 0],
      [x |-> 0, y |-> 5], [x |-> -5, y |-> 0], [x |-> 0, y |-> -5]>>
Headings ==
    {HeadingOrder[i] : i \in 1..(IF NumHeadings < 12 THEN NumHeadings ELSE 12)}

\* The directions getRandomDirection() can return: it draws again while
\* |x| <= 0.2 or |x| >= 0.9.
getRandomDirection ==
    {d \in Headings :
        ~(10 * Abs(d.x) <= 2 * DirScale \/ 10 * Abs(d.x) >= 9 * DirScale)}

doesBallCollideWithLeftWall(ball) == ball.leftX <= 0
doesBallCollideWithRightWall(ball) == ball.rightX >= CourtWidth
doesBallCollideWithLeftRightWalls(ball) ==
    doesBallCollideWithLeftWall(ball) \/ doesBallCollideWithRightWall(ball)

\* callOnAllGameObjects("reset"), the ball taking direction d
ResetAll(g, d) ==
    [g EXCEPT !.paddleA.position = PaddleStart("A"),
              !.paddleB.position = PaddleStart("B"),
              !.ball = [position |-> BallStart, direction |-> d,
                        passedPaddleLine |-> FALSE]]

\* emitInternalEvent(eventEmitter, "game.end", ...): the listeners
\* (GameService.destroyGame, GameWebsocketGateway.endedGame) run before it
\* returns.
emitInternalEvent(c) ==
    [c EXCEPT !.ended = TRUE,
              !.out = c.out \o <<Effect("game.end", c.g, Null, Null)>>]

\* The end of Game.score with the test `player.score > this.maxScore`: the
\* Match goes on at maxScore and ends one point later
ScoreStatus_oneMore(c, side) ==
    LET score == IF side = "A" THEN c.g.scoreA ELSE c.g.scoreB
    IN  IF score > maxScore
          THEN emitInternalEvent(SetStatus(c, "END"))
          ELSE SetStatus(c, "BREAK")

\* Game.score(player), the ball taking direction d on its reset
ScoreStatus(c, side) ==
    LET score == IF side = "A" THEN c.g.scoreA ELSE c.g.scoreB
    IN  IF score >= maxScore
          THEN emitInternalEvent(SetStatus(c, "END"))
          ELSE SetStatus(c, "BREAK")

GameScoreWith(c, side, d) ==
    LET g1 == IF side = "A" THEN [c.g EXCEPT !.scoreA = @ + 1]
                            ELSE [c.g EXCEPT !.scoreB = @ + 1]
        player == IF side = "A" THEN c.g.playerA ELSE c.g.playerB
    IN  ScoreStatus([c EXCEPT !.g = ResetAll(g1, d),
                              !.out = @ \o <<Effect("score", g1, Null, player)>>],
                    side)

GameScore(c, side) == {GameScoreWith(c, side, d) : d \in getRandomDirection}

\* The position setter crediting the player whose wall the ball reached
BallSetPosition_creditsOwnSide(c, newPosition) ==
    LET g == [c.g EXCEPT !.ball.position = newPosition]
        rect == BallGetRect(g.ball)
        scorer == IF doesBallCollideWithLeftWall(rect) THEN "A" ELSE "B"
    IN  IF doesBallCollideWithLeftRightWalls(rect)
          THEN GameScore([c EXCEPT !.g = g], scorer)
        ELSE IF /\ ~g.ball.passedPaddleLine
                /\ \/ rect.rightX > CourtWidth - PaddleWidth
                   \/ rect.leftX < PaddleWidth
          THEN {[c EXCEPT !.g = [g EXCEPT !.ball.passedPaddleLine = TRUE]]}
        ELSE {[c EXCEPT !.g = g]}

\* Ball: set position(newPosition)
BallSetPosition(c, newPosition) ==
    LET g == [c.g EXCEPT !.ball.position = newPosition]
        rect == BallGetRect(g.ball)
        scorer == IF doesBallCollideWithLeftWall(rect) THEN "B" ELSE "A"
    IN  IF doesBallCollideWithLeftRightWalls(rect)
          THEN GameScore([c EXCEPT !.g = g], scorer)
        ELSE IF /\ ~g.ball.passedPaddleLine
                /\ \/ rect.rightX > CourtWidth - PaddleWidth
                   \/ rect.leftX < PaddleWidth
          THEN {[c EXCEPT !.g = [g EXCEPT !.ball.passedPaddleLine = TRUE]]}
        ELSE {[c EXCEPT !.g = g]}

getNextPositionWithoutCollision(b, dist) ==
    [x |-> b.position.x + RoundDiv(b.direction.x * dist, DirScale),
     y |-> b.position.y + RoundDiv(b.direction.y * dist, DirScale)]

distanceBetweenPositions(a, b) ==
    RoundSqrt((b.x - a.x) * (b.x - a.x) + (b.y - a.y) * (b.y - a.y))

getIntersectionY(b, target_y) ==
    b.position.x + RoundDiv((target_y - b.position.y) * b.direction.x, b.direction.y)

getIntersectionX(b, target_x) ==
    b.position.y + RoundDiv((target_x - b.position.x) * b.direction.y, b.direction.x)

\* Ball.move(dist); depth counts the calls on the stack
RECURSIVE BallMove(_, _, _)
BallMove(c, dist, depth) ==
    LET g == c.g
        b == g.ball
        nextPosWithoutColl == getNextPositionWithoutCollision(b, dist)
        nextPosRect == getRectFromOffsetAndPos(nextPosWithoutColl, BallOffset, BallOffset)
        facingPaddle == IF b.direction.x > 0 THEN g.paddleB ELSE g.paddleA
        facingRect == PaddleGetRect(facingPaddle)
        overlapsPaddle ==
            \/ doesBallCollideWithPaddle(nextPosRect, PaddleGetRect(g.paddleA))
            \/ doesBallCollideWithPaddle(nextPosRect, PaddleGetRect(g.paddleB))
        collideWithTopBotWalls == doesBallCollideWithTopBotWalls(nextPosRect)
        xPaddle == IF b.direction.x > 0
                     THEN CourtWidth - PaddleWidth - BallOffset
                     ELSE PaddleWidth + BallOffset
        intersecY == getIntersectionX(b, xPaddle)
        crossesPaddle ==
            /\ ~overlapsPaddle
            /\ dist > PaddleWidth
            /\ doesBallCollideWithLeftRightWalls(nextPosRect)
            /\ ~b.passedPaddleLine
            /\ intersecY + BallOffset >= facingRect.topY
            /\ intersecY - BallOffset <= facingRect.botY
        collideWithPaddles == overlapsPaddle \/ crossesPaddle
        yWall == IF b.direction.y > 0 THEN CourtHeight - BallOffset ELSE BallOffset
        \* if (collideWithTopBotWalls)
        wallX == IF collideWithTopBotWalls THEN getIntersectionY(b, yWall) ELSE xPaddle
        b1 == IF collideWithTopBotWalls
                THEN [b EXCEPT !.direction.y = -@] ELSE b
        \* if (collideWithPaddles)
        yPaddle == IF facingRect.topY >= BallGetRect(b).botY
                     THEN facingRect.topY - BallOffset
                     ELSE facingRect.botY + BallOffset
        intersectionPos ==
            IF ~collideWithPaddles THEN [x |-> wallX, y |-> yWall]
            ELSE IF b.passedPaddleLine
              THEN [x |-> getIntersectionY(b1, yPaddle), y |-> yPaddle]
            ELSE [x |-> wallX, y |-> getIntersectionX(b1, xPaddle)]
        b2 == IF ~collideWithPaddles THEN b1
              ELSE IF b.passedPaddleLine THEN [b1 EXCEPT !.direction.y = -@]
              ELSE [b1 EXCEPT !.direction.x = -@]
        remainingDist == distanceBetweenPositions(intersectionPos, b.position)
        placed == BallSetPosition([c EXCEPT !.g.ball = b2,
                                            !.resolved = Append(@, intersectionPos)],
                                  intersectionPos)
    IN  IF depth > MaxDepth THEN {[c EXCEPT !.overflow = TRUE]}
        ELSE IF ~collideWithPaddles /\ ~collideWithTopBotWalls
          THEN BallSetPosition(c, nextPosWithoutColl)
        ELSE UNION {
               IF c2.g.ball.position.x > FatalX
                 THEN {[c2 EXCEPT !.fatal = TRUE]}
                 ELSE BallMove(c2, remainingDist, depth + 1)
               : c2 \in placed }

\* Ball.update(deltaTime)
BallUpdate(c, deltaTime) == BallMove(c, BallSpeed * deltaTime, 1)

-----------------------------------------------------------------------------
(* Game *)

\* new Game(playerA, playerB, ...), its ball taking direction d
NewGame(playerA, playerB, d) ==
    [id |-> playerA \o playerB,
     playerA |-> playerA, playerB |-> playerB,
     scoreA |-> 0, scoreB |-> 0,
     status |-> "INIT",
     lastUpdateTime |-> Null,
     timers |-> 0,
     timerLeft |-> 0,
     paddleA |-> [position |-> PaddleStart("A"), movement |-> "NONE"],
     paddleB |-> [position |-> PaddleStart("B"), movement |-> "NONE"],
     ball |-> [position |-> BallStart, direction |-> d, passedPaddleLine |-> FALSE]]

\* updateMovement that keeps an intent until NONE is written: the first of
\* two directions wins
updateMovement_keepsFirst(g, intraUserName, move) ==
    LET side == IF g.playerA = intraUserName THEN "A" ELSE "B"
        held == IF side = "A" THEN g.paddleA.movement ELSE g.paddleB.movement
        kept == IF held = "NONE" \/ move = "NONE" THEN move ELSE held
    IN  IF side = "A"
          THEN [g EXCEPT !.paddleA.movement = kept]
          ELSE [g EXCEPT !.paddleB.movement = kept]

\* Game.updateMovement(intraUserName, move)
updateMovement(g, intraUserName, move) ==
    IF g.playerA = intraUserName
      THEN [g EXCEPT !.paddleA.movement = move]
      ELSE [g EXCEPT !.paddleB.movement = move]

\* The time of the previous scheduler iteration, the origin of the clock: a
\* Game in PLAY whose lastUpdateTime is set was stamped by that iteration.
Stamp == "stamp"

\* Game.update() without the test of lastUpdateTime: the first tick of a PLAY
\* phase moves the objects by the time of the countdown or break
GameUpdate_alwaysMoves(g, deltaTime) ==
    LET moved ==
          BallUpdate(
            Ctx(PaddleUpdate(PaddleUpdate(g, "A", deltaTime), "B", deltaTime)),
            deltaTime)
    IN  {IF c.fatal \/ c.overflow THEN c
         ELSE [c EXCEPT !.out = c.out \o <<emitGamePositions(c.g)>>,
                        !.g.lastUpdateTime = Stamp]
         : c \in moved}

\* Game.update(), Date.now() being deltaTime after the previous iteration
GameUpdate(g, deltaTime) ==
    LET moved ==
          IF g.lastUpdateTime # Null
            THEN BallUpdate(
                   Ctx(PaddleUpdate(PaddleUpdate(g, "A", deltaTime), "B", deltaTime)),
                   deltaTime)
            ELSE {Ctx(g)}
    IN  {IF c.fatal \/ c.overflow THEN c
         ELSE [c EXCEPT !.out = c.out \o <<emitGamePositions(c.g)>>,
                        !.g.lastUpdateTime = Stamp]
         : c \in moved}

-----------------------------------------------------------------------------
(* GameService and GameWebsocketGateway.  S is the state of the server:    *)
(* a record of the variables.                                              *)

State ==
    [queue |-> queue, games |-> games, usersToGame |-> usersToGame,
     heap |-> heap, status |-> status, rooms |-> rooms, out |-> <<>>,
     running |-> running]

\* Map.has, Map.get, Map.set and Map.delete on games
MapHas(m, k) == \E i \in 1..Len(m) : m[i].id = k
MapGet(m, k) ==
    IF MapHas(m, k) THEN (CHOOSE e \in {m[i] : i \in 1..Len(m)} : e.id = k).ref
    ELSE NoRef
MapSet(m, k, v) ==
    IF MapHas(m, k)
      THEN [i \in 1..Len(m) |-> IF m[i].id = k THEN [id |-> k, ref |-> v] ELSE m[i]]
      ELSE Append(m, [id |-> k, ref |-> v])
MapDelete(m, k) == SelectSeq(m, LAMBDA e : e.id # k)

\* The Game objects something still refers to: the registry maps, or a
\* pending setTimeout callback.  The others are garbage.
Reachable(S, r) ==
    /\ r \in DOMAIN S.heap
    /\ \/ \E i \in 1..Len(S.games) : S.games[i].ref = r
       \/ \E u \in DOMAIN S.usersToGame : S.usersToGame[u] = r
       \/ S.heap[r].timers > 0
Collect(S) ==
    [S EXCEPT !.heap = [r \in {x \in Refs : Reachable(S, x)} |-> S.heap[r]]]

\* disconnectUser with the call of game.pause() in place: the Match of the
\* identity that leaves is paused
disconnectUser_pauses(S, u) ==
    LET r == S.usersToGame[u]
    IN  [S EXCEPT !.queue = IF S.queue = u THEN Null ELSE @,
                  !.status[u] = "OFFLINE",
                  !.rooms[u] = {},
                  !.heap = IF r = NoRef THEN @
                           ELSE [@ EXCEPT ![r].status = "PAUSE"]]

\* disconnectUser without the test of the queue: the identity that leaves
\* stays in the slot
disconnectUser_staysQueued(S, u) ==
    [S EXCEPT !.status[u] = "OFFLINE",
              !.rooms[u] = {}]

\* GameWebsocketGateway.handleDisconnect and GameService.disconnectUser, both
\* run when the socket of identity u disconnects
disconnectUser(S, u) ==
    [S EXCEPT !.queue = IF S.queue = u THEN Null ELSE @,
              !.status[u] = "OFFLINE",
              !.rooms[u] = {}]

\* connectUser without the lookup in usersToGame
connectUser_forgetsGame(S, u) == [S EXCEPT !.status[u] = "IDLE"]

\* GameService.connectUser, for the new socket of identity u
connectUser(S, u) ==
    LET game == S.usersToGame[u]
    IN  IF game = NoRef
          THEN [S EXCEPT !.status[u] = "IDLE"]
          ELSE [S EXCEPT !.status[u] = "GAME", !.rooms[u] = @ \cup {S.heap[game].id}]

\* destroyGame without the second usersToGame.delete
destroyGame_leavesPlayerB(S, g) ==
    [S EXCEPT !.usersToGame[g.playerA] = NoRef,
              !.games = MapDelete(@, g.id)]

\* destroyGame without games.delete
destroyGame_leavesGames(S, g) ==
    [S EXCEPT !.usersToGame[g.playerA] = NoRef,
              !.usersToGame[g.playerB] = NoRef]

\* GameService.destroyGame(payload)
destroyGame(S, g) ==
    [S EXCEPT !.usersToGame[g.playerA] = NoRef,
              !.usersToGame[g.playerB] = NoRef,
              !.games = MapDelete(@, g.id)]

\* GameWebsocketGateway.endedGame(payload): the sockets in the room and the
\* two players' sockets are disconnected
RECURSIVE DisconnectAll(_, _)
DisconnectAll(S, us) ==
    IF us = {} THEN S
    ELSE LET u == CHOOSE x \in us : TRUE
         IN  DisconnectAll(disconnectUser(S, u), us \ {u})
endedGame(S, g) ==
    DisconnectAll(S, {u \in DOMAIN S.status :
        /\ S.status[u] # "OFFLINE"
        /\ g.id \in S.rooms[u] \/ u \in {g.playerA, g.playerB}})

\* createGame without the two assignments of the status GAME
createGame_keepsStatus(S, userOne, userTwo, r, d) ==
    LET c == SetStatus(Ctx(NewGame(userOne, userTwo, d)), "INIT")
    IN  [S EXCEPT !.heap = [x \in DOMAIN @ \cup {r} |-> IF x = r THEN c.g ELSE @[x]],
                  !.games = MapSet(@, c.g.id, r),
                  !.usersToGame[userOne] = r,
                  !.usersToGame[userTwo] = r,
                  !.rooms[userOne] = @ \cup {c.g.id},
                  !.rooms[userTwo] = @ \cup {c.g.id},
                  !.out = @ \o c.out]

\* GameService.createGame(userOne, userTwo): the new Game object at ref r,
\* its ball taking direction d
createGame(S, userOne, userTwo, r, d) ==
    LET c == SetStatus(Ctx(NewGame(userOne, userTwo, d)), "INIT")
    IN  [S EXCEPT !.heap = [x \in DOMAIN @ \cup {r} |-> IF x = r THEN c.g ELSE @[x]],
                  !.games = MapSet(@, c.g.id, r),
                  !.usersToGame[userOne] = r,
                  !.usersToGame[userTwo] = r,
                  !.status[userOne] = "GAME",
                  !.status[userTwo] = "GAME",
                  !.rooms[userOne] = @ \cup {c.g.id},
                  !.rooms[userTwo] = @ \cup {c.g.id},
                  !.out = @ \o c.out]

\* queueUser without this.queue = null
queueUser_keepsSlot(S, u, r, d) ==
    IF S.queue = u THEN S
    ELSE IF S.queue = Null THEN [S EXCEPT !.queue = u]
    ELSE createGame(S, S.queue, u, r, d)

\* queueUser without the test of the identity in the slot
queueUser_pairsWithItself(S, u, r, d) ==
    IF S.queue = Null THEN [S EXCEPT !.queue = u]
    ELSE createGame([S EXCEPT !.queue = Null], S.queue, u, r, d)

\* GameService.queueUser(client)
queueUser(S, u, r, d) ==
    IF S.queue = u THEN S
    ELSE IF S.queue = Null THEN [S EXCEPT !.queue = u]
    ELSE createGame([S EXCEPT !.queue = Null], S.queue, u, r, d)

\* deQueueUser without the test of the identity in the slot
deQueueUser_anyone(S, u) == [S EXCEPT !.queue = Null]

\* GameService.deQueueUser(intraUserName)
deQueueUser(S, u) == IF S.queue = u THEN [S EXCEPT !.queue = Null] ELSE S

\* movement without the test of the registry's answer: the intent of an
\* identity that has no Match goes to the first Match of games
movement_anyGame(S, u, move) ==
    LET game == S.usersToGame[u]
    IN  IF game # NoRef THEN [S EXCEPT !.heap[game] = updateMovement(@, u, move)]
        ELSE IF S.games = <<>> THEN S
        ELSE [S EXCEPT !.heap[S.games[1].ref] = updateMovement(@, u, move)]

\* GameService.movement(intraUserName, move)
movement(S, u, move) ==
    LET game == S.usersToGame[u]
    IN  IF game = NoRef THEN S
        ELSE [S EXCEPT !.heap[game] = updateMovement(@, u, move)]

\* The identities whose socket is in the room id: those server.to(id) reaches
InRoom(S, id) ==
    {x \in DOMAIN S.rooms : S.status[x] # "OFFLINE" /\ id \in S.rooms[x]}

\* GameService.getGameIdForUser(username)
getGameIdForUser(S, u) ==
    IF S.usersToGame[u] = NoRef THEN Null ELSE S.heap[S.usersToGame[u]].id

\* GameWebsocketGateway.newInGameMessage, from the socket of identity u
newInGameMessage(S, u) ==
    LET gameId == getGameIdForUser(S, u)
    IN  IF gameId = Null THEN S
        ELSE [S EXCEPT !.out = @ \o
                <<[ev |-> "newInGameMessage", id |-> gameId, who |-> u,
                   heard |-> InRoom(S, gameId)]>>]

\* One visit of GameService.loop's forEach: game.update() on the Game at r
VisitGame(S, r, deltaTime) ==
    {LET S1 == [S EXCEPT !.heap[r] = c.g,
                         !.out = @ \o c.out,
                         !.running = ~(c.fatal \/ c.overflow)]
     IN  IF c.ended THEN endedGame(destroyGame(S1, c.g), c.g) ELSE S1
     : c \in GameUpdate(S.heap[r], deltaTime)}

\* games.forEach(...) over the entries the Map held when it started
RECURSIVE LoopFrom(_, _, _)
LoopFrom(S, entries, deltaTime) ==
    IF entries = <<>> \/ ~S.running THEN {S}
    ELSE LET e == Head(entries)
         IN  IF \/ MapGet(S.games, e.id) # e.ref
                \/ S.heap[e.ref].status # "PLAY"
               THEN LoopFrom(S, Tail(entries), deltaTime)
               ELSE UNION {LoopFrom(S2, Tail(entries), deltaTime)
                           : S2 \in VisitGame(S, e.ref, deltaTime)}

\* The state a handler leaves
Becomes(S) ==
    LET T == Collect(S)
    IN  /\ queue' = T.queue
        /\ games' = T.games
        /\ usersToGame' = T.usersToGame
        /\ heap' = T.heap
        /\ status' = T.status
        /\ rooms' = T.rooms
        /\ out' = T.out
        /\ running' = T.running

-----------------------------------------------------------------------------
(* The events *)

Init ==
    /\ queue = Null
    /\ games = <<>>
    /\ usersToGame = [u \in Users |-> NoRef]
    /\ heap = <<>>
    /\ status = [u \in Users |-> "OFFLINE"]
    /\ rooms = [u \in Users |-> {}]
    /\ out = <<>>
    /\ running = TRUE

\* A socket of identity u connects: an identity holds one live socket at a time.
Connect(u) ==
    /\ running
    /\ status[u] = "OFFLINE"
    /\ Becomes(connectUser(State, u))

\* The socket of identity u disconnects.
Disconnect(u) ==
    /\ running
    /\ status[u] # "OFFLINE"
    /\ Becomes(disconnectUser(State, u))

\* GameWebsocketGateway.queue
Queue(u) ==
    /\ running
    /\ status[u] # "OFFLINE"
    /\ IF status[u] # "IDLE" THEN Becomes(State)
       ELSE \/ /\ queue \in {Null, u}
               /\ Becomes(queueUser([State EXCEPT !.status[u] = "QUEUE"], u, NoRef, Null))
            \/ /\ queue \notin {Null, u}
               /\ \E r \in Refs, d \in getRandomDirection :
                    /\ r \notin DOMAIN heap
                    /\ \A q \in Refs : q < r => q \in DOMAIN heap
                    /\ Becomes(queueUser([State EXCEPT !.status[u] = "QUEUE"], u, r, d))

\* GameWebsocketGateway.deQueue
DeQueue(u) ==
    /\ running
    /\ status[u] # "OFFLINE"
    /\ IF status[u] # "QUEUE" THEN Becomes(State)
       ELSE Becomes(deQueueUser([State EXCEPT !.status[u] = "IDLE"], u))

\* GameWebsocketGateway.gameMovement
GameMovement(u, move) ==
    /\ running
    /\ status[u] # "OFFLINE"
    /\ IF status[u] # "GAME" THEN Becomes(State)
       ELSE Becomes(movement(State, u, move))

\* GameWebsocketGateway.newInGameMessage
NewInGameMessage(u) ==
    /\ running
    /\ status[u] # "OFFLINE"
    /\ Becomes(newInGameMessage(State, u))

\* A callback armed by the status setter's setTimeout fires on the Game at r,
\* once its timeout has elapsed.
TimerFires(r) ==
    /\ running
    /\ r \in DOMAIN heap
    /\ heap[r].timers > 0
    /\ heap[r].timerLeft = 0
    /\ LET c == SetStatus(Ctx([heap[r] EXCEPT !.timers = @ - 1]), "PLAY")
       IN  Becomes([State EXCEPT !.heap[r] = c.g, !.out = c.out])

\* The callbacks of setTimeout run in the order of their deadlines, and the
\* scheduler loop is one of them: a callback that is due runs before the next
\* iteration of the loop.
TimersDue == \E r \in DOMAIN heap : heap[r].timers > 0 /\ heap[r].timerLeft = 0

\* The clock advances by deltaTime.
Elapse(S, deltaTime) ==
    [S EXCEPT !.heap = [r \in DOMAIN @ |->
        [@[r] EXCEPT !.timerLeft = IF @ > deltaTime THEN @ - deltaTime ELSE 0]]]

\* GameService.loop, deltaTime after its previous iteration
LoopAfter(deltaTime) ==
    /\ running
    /\ ~TimersDue
    /\ \E S \in LoopFrom(Elapse(State, deltaTime), games, deltaTime) : Becomes(S)

Loop == \E deltaTime \in DeltaTimes : LoopAfter(deltaTime)

\* The server with the rivals: two identities, who steer their paddles.
Next ==
    \/ \E u \in Rivals : Connect(u)
    \/ \E u \in Rivals : Disconnect(u)
    \/ \E u \in Rivals : Queue(u)
    \/ \E u \in Rivals : DeQueue(u)
    \/ \E u \in Rivals, move \in Movements : GameMovement(u, move)
    \/ \E r \in Refs : TimerFires(r)
    \/ Loop

Spec == Init /\ [][Next]_vars

\* The server with every identity, none of whom steers a paddle.
NextLobby ==
    \/ \E u \in Users : Connect(u)
    \/ \E u \in Users : Disconnect(u)
    \/ \E u \in Users : Queue(u)
    \/ \E u \in Users : DeQueue(u)
    \/ \E r \in Refs : TimerFires(r)
    \/ Loop

SpecLobby == Init /\ [][NextLobby]_vars

\* Four identities whose names run together: a with bc and ab with c both
\* read abc.
Namesakes == {"a", "bc", "ab", "c"}

InitNamesakes ==
    /\ queue = Null
    /\ games = <<>>
    /\ usersToGame = [u \in Namesakes |-> NoRef]
    /\ heap = <<>>
    /\ status = [u \in Namesakes |-> "OFFLINE"]
    /\ rooms = [u \in Namesakes |-> {}]
    /\ out = <<>>
    /\ running = TRUE

\* The server with the four of them, while no time passes: the requests
\* the gateway handles before the countdown of the first Match is over.
NextNamesakes ==
    \/ \E u \in Namesakes : Connect(u)
    \/ \E u \in Namesakes : Disconnect(u)
    \/ \E u \in Namesakes : Queue(u)
    \/ \E u \in Namesakes : DeQueue(u)
    \/ \E u \in Namesakes : NewInGameMessage(u)

SpecNamesakes == InitNamesakes /\ [][NextNamesakes]_vars

-----------------------------------------------------------------------------
(* The court: one tick of a Match in PLAY, from the states a Match can be  *)
(* in between two ticks.                                                   *)

\* The ball is past a paddle line: its rectangle reaches beyond the front of
\* a paddle.
PastPaddleLine(position) ==
    LET rect == getRectFromOffsetAndPos(position, BallOffset, BallOffset)
    IN  rect.rightX > CourtWidth - PaddleWidth \/ rect.leftX < PaddleWidth

\* Where the ball is: inside the court, off the side walls (a ball that
\* touches one has scored and is back at the centre); the places of the grid
\* and the two where the ball stands against a paddle line.
BallPlaces ==
    {[x |-> x, y |-> y] :
        x \in {n \in (BallOffset + 1)..(CourtWidth - BallOffset - 1) :
                 \/ (n - BallOffset - 1) % GridStep = 0
                 \/ n = PaddleWidth + BallOffset
                 \/ n = CourtWidth - PaddleWidth - BallOffset},
        y \in {n \in (BallOffset + 1)..(CourtHeight - BallOffset - 1) :
                 (n - BallOffset - 1) % GridStep = 0}}

\* Where a paddle is: its rectangle inside the court.
PaddlePlaces ==
    {n \in PaddleYOffset..(CourtHeight - PaddleYOffset) :
        (n - PaddleYOffset) % PaddleStep = 0}

\* A direction of the ball: one getRandomDirection() returned, with the
\* signs the bounces gave it.
Directions ==
    {d \in {HeadingOrder[i] : i \in 1..Len(HeadingOrder)} :
        ~(10 * Abs(d.x) <= 2 * DirScale \/ 10 * Abs(d.x) >= 9 * DirScale)}

\* The time since the previous tick: from none to two quanta.
TickLengths == {0, 1, 3, Quantum \div 2, Quantum, 2 * Quantum}

\* A Match of a and b in PLAY, ticked before: passedPaddleLine is set once
\* the ball is past a paddle line, and from there the ball goes on to the
\* wall (only a bounce off a paddle's front inverts direction.x).
CourtGame(place, d, yA, yB, moveA, moveB) ==
    [NewGame("a", "b", d) EXCEPT
        !.status = "PLAY",
        !.lastUpdateTime = Stamp,
        !.ball.position = place,
        !.ball.passedPaddleLine = PastPaddleLine(place),
        !.paddleA = [position |-> [x |-> PaddleStart("A").x, y |-> yA],
                     movement |-> moveA],
        !.paddleB = [position |-> [x |-> PaddleStart("B").x, y |-> yB],
                     movement |-> moveB]]

CourtGames ==
    {CourtGame(place, d, yA, yB, moveA, moveB) :
        place \in BallPlaces, d \in Directions,
        yA \in PaddlePlaces, yB \in PaddlePlaces,
        moveA \in {"UP", "DOWN", "NONE"}, moveB \in {"UP", "DOWN", "NONE"}}

LegalGames ==
    {g \in CourtGames :
        /\ g.ball.passedPaddleLine =>
              (g.ball.direction.x > 0 <=> 2 * g.ball.position.x > CourtWidth)
        /\ ~doesBallCollideWithPaddle(BallGetRect(g.ball), PaddleGetRect(g.paddleA))
        /\ ~doesBallCollideWithPaddle(BallGetRect(g.ball), PaddleGetRect(g.paddleB))}

InitCourt ==
    /\ queue = Null
    /\ heap \in {<<g>> : g \in LegalGames}
    /\ games = <<[id |-> heap[1].id, ref |-> 1]>>
    /\ usersToGame = [u \in Users |-> IF u \in {"a", "b"} THEN 1 ELSE NoRef]
    /\ status = [u \in Users |-> IF u \in {"a", "b"} THEN "GAME" ELSE "OFFLINE"]
    /\ rooms = [u \in Users |-> IF u \in {"a", "b"} THEN {heap[1].id} ELSE {}]
    /\ out = <<>>
    /\ running = TRUE

\* The tick that follows: GameService.loop, deltaTime after the previous one
Tick(deltaTime) ==
    /\ out = <<>>
    /\ LoopAfter(deltaTime)

NextCourt == \E deltaTime \in TickLengths : Tick(deltaTime)

SpecCourt == InitCourt /\ [][NextCourt]_vars

\* The Match that is ticked is in PLAY, and its ball is past a paddle line.
RallyPastLine ==
    \E r \in DOMAIN heap :
        /\ heap[r].status = "PLAY"
        /\ heap[r].ball.passedPaddleLine

\* The ticks of a rally, each a positive time after the one before: the
\* first from a Match of the court, the others for as long as the ball is
\* past a paddle line.
RallyTick(deltaTime) ==
    /\ out = <<>> \/ RallyPastLine
    /\ LoopAfter(deltaTime)

NextRally == \E deltaTime \in TickLengths \ {0} : RallyTick(deltaTime)

SpecRally == InitCourt /\ [][NextRally]_vars

\* A ball that flies level: direction.y is 0.
HeadOn == {[x |-> DirScale, y |-> 0], [x |-> -DirScale, y |-> 0]}

\* The places of a level ball: on the line through the centre of the court
\* or half a ball beside it, between the paddles, touching neither.
HeadOnPlaces ==
    {[x |-> x, y |-> y] :
        x \in (PaddleWidth + BallOffset + 1)..(CourtWidth - PaddleWidth - BallOffset - 1),
        y \in (CourtHeight \div 2 - BallOffset)..(CourtHeight \div 2 + BallOffset)}

\* The Matches of the head-on bounce: both paddles stand still where they
\* started, level with the ball.
HeadOnGames ==
    {CourtGame(place, d, PaddleStart("A").y, PaddleStart("B").y, "NONE", "NONE") :
        place \in HeadOnPlaces, d \in HeadOn}

InitHeadOn ==
    /\ queue = Null
    /\ heap \in {<<g>> : g \in HeadOnGames}
    /\ games = <<[id |-> heap[1].id, ref |-> 1]>>
    /\ usersToGame = [u \in Users |-> IF u \in {"a", "b"} THEN 1 ELSE NoRef]
    /\ status = [u \in Users |-> IF u \in {"a", "b"} THEN "GAME" ELSE "OFFLINE"]
    /\ rooms = [u \in Users |-> IF u \in {"a", "b"} THEN {heap[1].id} ELSE {}]
    /\ out = <<>>
    /\ running = TRUE

SpecHeadOn == InitHeadOn /\ [][NextCourt]_vars

\* A timer is pending and not yet due, and no other is due: an iteration of
\* the loop a quantum later is possible, and brings the timer closer.
ClockRuns ==
    /\ running
    /\ ~TimersDue
    /\ \E r \in DOMAIN heap : heap[r].timers > 0 /\ heap[r].timerLeft > 0

\* The loop reschedules itself and the clock advances: while a timer waits,
\* an iteration a quantum after the previous one comes (weak fairness of
\* that iteration, its enabling condition written out as ClockRuns); a
\* setTimeout callback that is due runs.
Fairness ==
    /\ []<>(~ClockRuns)
          \/ []<><<\E deltaTime \in DeltaTimes \ {0} : LoopAfter(deltaTime)>>_vars
    /\ \A r \in Refs : WF_vars(TimerFires(r))

FairSpec == Spec /\ Fairness
FairLobby == SpecLobby /\ Fairness

-----------------------------------------------------------------------------
(* The registry, and the effects of the last handler *)

\* The Game objects the registry holds, in games or in usersToGame
Registered ==
    {games[i].ref : i \in 1..Len(games)} \cup ({usersToGame[u] : u \in Users} \ {NoRef})
PlayersOf(r) == {heap[r].playerA, heap[r].playerB}
\* The status changes and the scoring events of the last handler
StatusChanges == {i \in 1..Len(out) : out[i].ev = "updatedGameStatus"}
Scores == {i \in 1..Len(out) : out[i].ev = "score"}
ScoreOf(e, player) == IF player = e.playerA THEN e.scoreA ELSE e.scoreB
Edges == {<<"INIT", "PLAY">>, <<"PLAY", "BREAK">>, <<"PLAY", "END">>, <<"BREAK", "PLAY">>}

-----------------------------------------------------------------------------
(* The properties *)

\* C1: in every reachable state, no identity is a player of more than one
\* Match held in the registry (games / usersToGame).
C1_OneMatchPerIdentity ==
    \A u \in Users : Cardinality({r \in Registered : u \in PlayersOf(r)}) <= 1

\* A Match is registered, one of its players is connected (in status GAME,
\* so that its queue requests are refused), and a third identity waits in
\* the queue slot.
C1_PlayerBesideQueue ==
    \E r \in Registered : \E u \in PlayersOf(r) :
        /\ status[u] = "GAME"
        /\ queue \notin PlayersOf(r) \cup {Null}

\* C2: from an empty queue slot, the queue request of an idle identity fills
\* the slot and creates no Match; the next queue request, of another idle
\* identity, creates exactly one new Match, whose players are the two, and
\* leaves the slot empty.  Each request is one step: the two never both find
\* the slot empty.
C2_PairingMakesOneMatch ==
    [][\A u \in Users :
         (status[u] = "IDLE" /\ Queue(u)) =>
            IF queue = Null
              THEN queue' = u /\ games' = games /\ usersToGame' = usersToGame
              ELSE /\ queue' = Null
                   /\ Len(games') = Len(games) + 1
                   /\ \E r \in DOMAIN heap' \ DOMAIN heap :
                        /\ games' = Append(games, [id |-> heap'[r].id, ref |-> r])
                        /\ heap'[r].playerA = queue
                        /\ heap'[r].playerB = u
                        /\ usersToGame' = [usersToGame EXCEPT ![queue] = r, ![u] = r]]_vars

\* A pairing has just created a Match: it is registered, in INIT, and the
\* slot is empty.
C2_JustPaired ==
    /\ queue = Null
    /\ \E i \in StatusChanges : out[i].to = "INIT" /\ MapHas(games, out[i].id)

\* C3: every change of a Match's status follows one of the edges INIT->PLAY,
\* PLAY->BREAK, PLAY->END, BREAK->PLAY (the entry into INIT at creation is
\* not a change).
C3_OnlyTheEdges ==
    \A i \in StatusChanges :
        out[i].to # "INIT" => <<out[i].from, out[i].to>> \in Edges

\* C4: END is terminal: the status of a Match that is in END never changes
\* again, not even by a timer that was pending when it ended.
C4_EndIsTerminal == \A i \in StatusChanges : out[i].from # "END"

\* C5: a point that raises the scorer's score to the win threshold takes the
\* Match from PLAY to END, the END broadcast naming the scorer as winner; a
\* point that leaves the scorer below the threshold takes it from PLAY to
\* BREAK.
C5_WinningPointEnds ==
    \A i \in Scores :
        /\ i + 1 \in StatusChanges
        /\ out[i + 1].from = "PLAY"
        /\ IF ScoreOf(out[i], out[i].who) >= maxScore
             THEN out[i + 1].to = "END" /\ out[i + 1].who = out[i].who
             ELSE out[i + 1].to = "BREAK"

\* C6: a scoring event raises the score of exactly one player by exactly 1,
\* and one tick (one Game.update call) produces at most one scoring event,
\* whatever deltaTime.
C6_OnePointPerTick ==
    /\ \A i \in Scores : \A j \in 1..(i - 1) :
         (\A k \in (j + 1)..(i - 1) : k \notin Scores) =>
            /\ out[i].scoreA + out[i].scoreB = out[j].scoreA + out[j].scoreB + 1
            /\ ScoreOf(out[i], out[i].who) = ScoreOf(out[j], out[i].who) + 1
    /\ Cardinality(Scores) <= 1

\* C7: no point is scored by a ball that reaches a side wall while
\* passedPaddleLine is false: at every scoring event the flag is set.
C7_ScoresOnlyPastThePaddleLine == \A i \in Scores : out[i].passed

\* C8: games and usersToGame are in lockstep in every reachable state: a
\* Match stored in games under its id is what usersToGame gives for both its
\* players, and a Match usersToGame gives is stored in games under its id;
\* creation and destruction being single steps, no state has a part of the
\* three entries.
C8_Lockstep ==
    /\ \A i \in 1..Len(games) :
         LET r == games[i].ref
         IN  /\ r \in DOMAIN heap
             /\ heap[r].id = games[i].id
             /\ usersToGame[heap[r].playerA] = r
             /\ usersToGame[heap[r].playerB] = r
    /\ \A u \in DOMAIN usersToGame :
         usersToGame[u] # NoRef =>
            /\ usersToGame[u] \in DOMAIN heap
            /\ u \in PlayersOf(usersToGame[u])
            /\ MapGet(games, heap[usersToGame[u]].id) = usersToGame[u]

\* A Match has just been destroyed: game.end was dispatched, and the
\* registry is empty.
C8_JustDestroyed ==
    /\ \E i \in 1..Len(out) : out[i].ev = "game.end"
    /\ games = <<>>
    /\ \A u \in Users : usersToGame[u] = NoRef

\* C9: when a point reaches the win threshold, the Match is unregistered
\* (game.end dispatched to destroyGame) before the END status broadcast is
\* emitted.
C9_UnregisteredBeforeEndBroadcast ==
    \A i \in StatusChanges :
        out[i].to = "END" =>
           \E j \in 1..(i - 1) : out[j].ev = "game.end" /\ out[j].id = out[i].id

\* C10: after a Match's transition to END, Game.update is never invoked on
\* it again, and it is absent from games and usersToGame in every later
\* state: the handler in which a Match goes to END leaves no Match of that id
\* registered, and a Game object that is no longer registered never is
\* again, and is never ticked (only a pending timer still touches it).
C10_NeverTickedAgain ==
    [][/\ \A i \in 1..Len(out') :
            (out'[i].ev = "updatedGameStatus" /\ out'[i].to = "END") =>
               /\ ~MapHas(games', out'[i].id)
               /\ \A u \in Users :
                    usersToGame'[u] # NoRef => heap'[usersToGame'[u]].id # out'[i].id
       /\ \A r \in DOMAIN heap :
            (r \notin Registered /\ r \in DOMAIN heap') =>
               /\ r \notin Registered'
               /\ heap'[r].ball = heap[r].ball
               /\ heap'[r].scoreA = heap[r].scoreA
               /\ heap'[r].scoreB = heap[r].scoreB
               /\ heap'[r].lastUpdateTime \in {heap[r].lastUpdateTime, Null}]_vars

\* A Match that ended is still in memory, unregistered, and a scheduler
\* iteration has run since (its pending timer has become due).
C10_EndedAndPassedOver ==
    \E r \in DOMAIN heap :
        /\ r \notin Registered
        /\ heap[r].status = "END"
        /\ heap[r].timers > 0
        /\ heap[r].timerLeft = 0

Resumes(r) ==
    {i \in 1..Len(out') :
        /\ out'[i].ev = "updatedGameStatus"
        /\ out'[i].id = heap[r].id
        /\ out'[i].to = "PLAY"}

\* C12: a BREAK is left only for PLAY, when the break timer fires, by exactly
\* one BREAK->PLAY change, and a BREAK phase gives no other change to PLAY:
\* a Match in PLAY or END is not set to PLAY again.
C12_OneResumePerBreak ==
    [][\A r \in DOMAIN heap \cap DOMAIN heap' :
          /\ heap[r].status = "BREAK" =>
                /\ heap'[r].status \in {"BREAK", "PLAY"}
                /\ heap'[r].status = "PLAY" <=> Cardinality(Resumes(r)) = 1
                /\ \A i \in Resumes(r) : out'[i].from = "BREAK"
          /\ heap[r].status \in {"PLAY", "END"} => Resumes(r) = {}]_vars

\* C13: while a Match's status is INIT, BREAK or END no tick runs on it, so
\* its ball position, paddle positions and scores do not change: what the
\* server emits about a Match after it announced INIT, BREAK or END, and
\* before it announces PLAY, carries the positions and scores of that
\* announcement.
C13_StillOutsidePlay ==
    \A i \in StatusChanges :
        out[i].to \in {"INIT", "BREAK", "END"} =>
           \A j \in (i + 1)..Len(out) :
              (/\ out[j].id = out[i].id
               /\ \A k \in (i + 1)..j : ~(k \in StatusChanges /\ out[k].to = "PLAY")) =>
                 /\ out[j].ball = out[i].ball
                 /\ out[j].paddleLeft = out[i].paddleLeft
                 /\ out[j].paddleRight = out[i].paddleRight
                 /\ out[j].scoreA = out[i].scoreA
                 /\ out[j].scoreB = out[i].scoreB

\* The ball and the paddles of a Game object, where they are
Positions(g) == <<g.ball.position, g.paddleA.position, g.paddleB.position>>

\* C14: the first tick after each entry into PLAY applies no movement to the
\* ball or the paddles, whatever time the countdown or break took: a Match
\* enters PLAY with lastUpdateTime null, nothing moves its objects before
\* its first tick, and the tick that finds lastUpdateTime null only stamps
\* it, so that physics uses the time since the previous tick of the phase.
C14_FirstTickStandsStill ==
    [][\A r \in DOMAIN heap \cap DOMAIN heap' :
          /\ (heap[r].status # "PLAY" /\ heap'[r].status = "PLAY") =>
                heap'[r].lastUpdateTime = Null
          /\ (heap[r].status = "PLAY" /\ heap[r].lastUpdateTime = Null) =>
                /\ Positions(heap'[r]) = Positions(heap[r])
                /\ heap'[r].scoreA = heap[r].scoreA
                /\ heap'[r].scoreB = heap[r].scoreB
                /\ heap'[r].status = "PLAY"]_vars

\* The first tick after a break has run: the Match is in PLAY with a point
\* on the board, its time stamped, and the ball still is at the centre.
C14_ResumedAndStamped ==
    /\ Len(out) = 1
    /\ out[1].ev = "updatedGamePositions"
    /\ \E r \in Registered :
          /\ heap[r].id = out[1].id
          /\ heap[r].status = "PLAY"
          /\ heap[r].lastUpdateTime = Stamp
          /\ heap[r].scoreA + heap[r].scoreB > 0
          /\ heap[r].ball.position = BallStart

\* C15: between handlers, a Match whose status is not PLAY has a null
\* lastUpdateTime: the timestamp is null from the moment the Match leaves
\* PLAY until it is in PLAY again.
C15_NullStampOutsidePlay ==
    \A r \in DOMAIN heap :
        heap[r].status # "PLAY" => heap[r].lastUpdateTime = Null

\* The queue slot and the registry
Lobby == <<queue, games, usersToGame, heap>>

\* C16: a queue request of the identity the slot already holds is a no-op,
\* however many times it is repeated: GameService.queueUser returns the
\* state it was given, and the gateway's handler leaves the slot, the
\* Matches, the registry and the statuses as they are.
C16_RepeatedQueueIsNoOp ==
    /\ [](queue \in Users =>
            \A r \in Refs, d \in getRandomDirection :
               queueUser(State, queue, r, d) = State)
    /\ [][\A u \in Users :
             (queue = u /\ Queue(u)) =>
                /\ UNCHANGED Lobby
                /\ UNCHANGED <<status, rooms>>
                /\ out' = <<>>]_vars

\* The slot holds an identity, who may repeat its request, beside a
\* registered Match.
C16_QueuedBesideMatch ==
    /\ queue \in Users
    /\ status[queue] = "QUEUE"
    /\ games # <<>>
    /\ usersToGame[queue] = NoRef

\* C17: dequeue(X) empties the slot if and only if the slot holds X; when the
\* slot is empty or holds another identity, it leaves the slot and the
\* registry unchanged.
C17_DequeueOnlyOwnSlot ==
    /\ [](\A x \in Users :
            deQueueUser(State, x) =
               IF queue = x THEN [State EXCEPT !.queue = Null] ELSE State)
    /\ [][\A x \in Users :
             DeQueue(x) =>
                /\ queue' = IF queue = x THEN Null ELSE queue
                /\ UNCHANGED <<games, usersToGame, heap>>]_vars

\* The slot holds an identity while another one, connected and idle, may
\* send deQueue.
C17_SlotOfAnother ==
    /\ queue \in Users
    /\ \E x \in Users : x # queue /\ status[x] = "IDLE"
    /\ out = <<>>

\* C18: a queue request of an identity registered to a Match changes neither
\* the slot nor the Matches, and the caller is told so: the handler emits an
\* "already in a match" rejection to it.
C18_RegisteredIsToldNo ==
    [][\A u \in Users :
          (usersToGame[u] # NoRef /\ Queue(u)) =>
             /\ UNCHANGED Lobby
             /\ \E i \in 1..Len(out') :
                   out'[i].ev = "alreadyInMatch" /\ out'[i].who = u]_vars

\* UP, DOWN and NONE
AllMoves == {MoveOrder[i] : i \in 1..Len(MoveOrder)}

\* C19: a movement event of an identity that is not registered to a Match
\* (never matched, still queued, or its Match ended) changes no paddle's
\* intent and no other state: GameService.movement returns the state it
\* was given, and the gateway's handler changes nothing.
C19_StrangersMoveNothing ==
    /\ [](\A u \in Users, move \in AllMoves :
            usersToGame[u] = NoRef => movement(State, u, move) = State)
    /\ [][\A u \in Users, move \in AllMoves :
             (usersToGame[u] = NoRef /\ GameMovement(u, move)) =>
                /\ UNCHANGED <<queue, games, usersToGame, heap, status, rooms, running>>
                /\ out' = <<>>]_vars

\* A connected identity whose Match ended has none any more and waits in the
\* queue, while the Game object of the ended Match still is in memory.
C19_StrangerBesideMatch ==
    /\ DOMAIN heap # {}
    /\ \E u \in Rivals :
          /\ status[u] = "QUEUE"
          /\ usersToGame[u] = NoRef
          /\ \E r \in DOMAIN heap : u \in PlayersOf(r)

\* The paddle of identity u in the Game object g
SideOf(g, u) == IF g.playerA = u THEN "A" ELSE "B"

\* C20: movement intents are last-write-wins and are not queued: whatever
\* two movement events an identity sends between two ticks, the state is the
\* one the second alone gives, so that the first has no effect on the next
\* tick or on any position; a movement event moves nothing by itself, the
\* paddle holds the last value, and the next tick's Paddle.update goes by
\* that value (no move at all for NONE).
C20_LastWriteWins ==
    \A u \in Users :
        usersToGame[u] # NoRef =>
           \A second \in AllMoves :
              LET r == usersToGame[u]
                  S2 == movement(State, u, second)
                  side == SideOf(heap[r], u)
              IN  /\ \A first \in AllMoves :
                        LET S12 == movement(movement(State, u, first), u, second)
                        IN  /\ S12 = S2
                            /\ \A deltaTime \in DeltaTimes :
                                  PaddleUpdate(S12.heap[r], side, deltaTime)
                                     = PaddleUpdate(S2.heap[r], side, deltaTime)
                  /\ PaddleOf(S2.heap[r], side).movement = second
                  /\ Positions(S2.heap[r]) = Positions(heap[r])
                  /\ second = "NONE" =>
                        \A deltaTime \in DeltaTimes :
                           PaddleUpdate(S2.heap[r], side, deltaTime) = S2.heap[r]

\* A rival wrote UP and ticks have applied it: the Match is in PLAY and the
\* paddle has left its starting place.
C20_IntentApplied ==
    \E u \in Rivals :
        /\ usersToGame[u] # NoRef
        /\ LET g == heap[usersToGame[u]]
               side == SideOf(g, u)
           IN  /\ g.status = "PLAY"
               /\ PaddleOf(g, side).movement = "UP"
               /\ PaddleOf(g, side).position # PaddleStart(side)

\* C21: at the end of a tick in which a point was scored, both paddles are
\* at their starting positions, the ball is at its starting position and
\* passedPaddleLine is false: what the tick emits last, after the point,
\* are the positions of the reset objects.
C21_ResetAfterPoint ==
    \A i \in Scores : \A j \in (i + 1)..Len(out) :
        (out[j].ev = "updatedGamePositions" /\ out[j].id = out[i].id) =>
           /\ out[j].ball = BallStart
           /\ out[j].paddleLeft = PaddleStart("A")
           /\ out[j].paddleRight = PaddleStart("B")
           /\ ~out[j].passed

\* The scores of the Match of effect i of the handler that ends, before the
\* point of that effect: those of the previous point of the handler, or
\* those the handler found.
ScoresBefore(i) ==
    LET earlier == {j \in 1..(i - 1) : out'[j].ev = "score" /\ out'[j].id = out'[i].id}
        last == CHOOSE j \in earlier : \A k \in earlier : k <= j
        r == CHOOSE x \in DOMAIN heap : heap[x].id = out'[i].id
    IN  IF earlier # {} THEN <<out'[last].scoreA, out'[last].scoreB>>
        ELSE <<heap[r].scoreA, heap[r].scoreB>>

\* C22: a point is credited to the opposing player: when the ball is at the
\* left wall playerB (the right paddle) gains one point, when it is at the
\* right wall playerA (the left paddle) does, and the player whose wall it
\* is gains nothing.
C22_PointToTheOpponent ==
    [][\A i \in 1..Len(out') :
          out'[i].ev = "score" =>
             LET rect == getRectFromOffsetAndPos(out'[i].ball, BallOffset, BallOffset)
                 before == ScoresBefore(i)
             IN  /\ rect.leftX <= 0 \/ rect.rightX >= CourtWidth
                 /\ rect.leftX <= 0 =>
                       /\ out'[i].who = out'[i].playerB
                       /\ out'[i].scoreB = before[2] + 1
                       /\ out'[i].scoreA = before[1]
                 /\ rect.rightX >= CourtWidth =>
                       /\ out'[i].who = out'[i].playerA
                       /\ out'[i].scoreA = before[1] + 1
                       /\ out'[i].scoreB = before[2]]_vars

\* The ball reached the left wall in the last tick, and b, the player of
\* the right paddle, has the point.
C22_LeftWallPointForB ==
    \E i \in Scores :
        /\ out[i].ball.x - BallOffset <= 0
        /\ out[i].who = "b"
        /\ out[i].playerB = "b"
        /\ out[i].scoreB = 1
        /\ out[i].scoreA = 0

\* The rectangle of a paddle lies inside the court.
PaddleInsideCourt(p) ==
    PaddleGetRect(p).topY >= 0 /\ PaddleGetRect(p).botY <= CourtHeight

\* C23: after Paddle.update(deltaTime), for every deltaTime >= 0 and every
\* movement, a paddle that was inside the court has its rectangle inside
\* the court, and with movement NONE it has not moved.
C23_PaddleStaysInside ==
    \A r \in DOMAIN heap, side \in {"A", "B"}, deltaTime \in TickLengths :
        PaddleInsideCourt(PaddleOf(heap[r], side)) =>
           LET updated == PaddleUpdate(heap[r], side, deltaTime)
           IN  /\ PaddleInsideCourt(PaddleOf(updated, side))
               /\ PaddleOf(heap[r], side).movement = "NONE" => updated = heap[r]

\* C24: after every tick of a Match in PLAY, for every deltaTime >= 0, the
\* ball's rectangle lies inside the court, also when a paddle has pushed the
\* ball during the tick: between two handlers, the ball of every Match is
\* inside the court.
C24_BallInsideCourt ==
    \A r \in DOMAIN heap :
        LET rect == BallGetRect(heap[r].ball)
        IN  /\ rect.topY >= 0
            /\ rect.botY <= CourtHeight
            /\ rect.leftX >= 0
            /\ rect.rightX <= CourtWidth

\* A tick has run without a point and left the ball past a paddle line,
\* level with the paddle's rectangle and beside it.
C24_BesideThePaddle ==
    /\ Len(out) = 1
    /\ out[1].ev = "updatedGamePositions"
    /\ \E r \in Registered :
          LET rect == BallGetRect(heap[r].ball)
              paddle == PaddleGetRect(heap[r].paddleA)
          IN  /\ heap[r].status = "PLAY"
              /\ heap[r].ball.passedPaddleLine
              /\ rect.leftX < PaddleWidth
              /\ rect.botY < paddle.topY
              /\ rect.botY >= paddle.topY - BallSideLength

\* The front plane of the paddle the ball of g goes to, as an x of the ball
XPaddleOf(g) ==
    IF g.ball.direction.x > 0 THEN CourtWidth - PaddleWidth - BallOffset
                              ELSE PaddleWidth + BallOffset

\* Going dist straight on, the ball of g, not yet past a paddle line, crosses
\* the front plane of the facing paddle at a height where its rectangle
\* overlaps the paddle's, without meeting the top or bottom wall before.
CrossesFacingPaddle(g, dist) ==
    LET b == g.ball
        facing == PaddleGetRect(IF b.direction.x > 0 THEN g.paddleB ELSE g.paddleA)
        next == getNextPositionWithoutCollision(b, dist)
        y == getIntersectionX(b, XPaddleOf(g))
    IN  /\ ~b.passedPaddleLine
        /\ IF b.direction.x > 0
             THEN b.position.x < XPaddleOf(g) /\ next.x > XPaddleOf(g)
             ELSE b.position.x > XPaddleOf(g) /\ next.x < XPaddleOf(g)
        /\ y + BallOffset >= facing.topY
        /\ y - BallOffset <= facing.botY
        /\ y - BallOffset > 0
        /\ y + BallOffset < CourtHeight

\* C25: the ball never tunnels through a paddle: whatever the distance of
\* the tick, when the ball's path (paddles updated) crosses the facing
\* paddle's front plane at the paddle's height with passedPaddleLine false,
\* the ball is reflected there: the tick gives no point against that paddle,
\* does not leave the ball behind the plane, and a tick too short to reach
\* the other paddle leaves direction.x inverted.
C25_NoTunnel ==
    [][\A deltaTime \in TickLengths, r \in DOMAIN heap \cap DOMAIN heap' :
          LET g == PaddleUpdate(PaddleUpdate(heap[r], "A", deltaTime), "B", deltaTime)
              right == g.ball.direction.x > 0
              after == heap'[r].ball
          IN  (/\ Tick(deltaTime)
               /\ heap[r].status = "PLAY"
               /\ CrossesFacingPaddle(g, BallSpeed * deltaTime)) =>
                 /\ \A i \in 1..Len(out') :
                       out'[i].ev = "score" =>
                          out'[i].who # (IF right THEN g.playerA ELSE g.playerB)
                 /\ IF right THEN after.position.x <= XPaddleOf(g)
                             ELSE after.position.x >= XPaddleOf(g)
                 /\ BallSpeed * deltaTime < CourtWidth - 2 * PaddleWidth - BallSideLength =>
                       after.direction.x = -g.ball.direction.x]_vars

\* The centre of the court.
CourtCentre == [x |-> CourtWidth \div 2, y |-> CourtHeight \div 2]

\* C26: a tick of a ball at the centre of the court with direction (1, 0),
\* the right paddle standing still at its starting height, over a distance
\* that reaches the paddle, leaves the ball with direction.x inverted,
\* direction.y and position.y as they were, and position.x at the paddle's
\* front less the ball's half side.
C26_HeadOnBounce ==
    [][\A deltaTime \in TickLengths, r \in DOMAIN heap \cap DOMAIN heap' :
          LET before == heap[r].ball
              after == heap'[r].ball
              front == CourtWidth - PaddleWidth
          IN  (/\ Tick(deltaTime)
               /\ before.position = CourtCentre
               /\ before.direction = [x |-> DirScale, y |-> 0]
               /\ BallSpeed * deltaTime >= front - BallOffset - before.position.x) =>
                 /\ after.direction = [x |-> -DirScale, y |-> 0]
                 /\ after.position.y = before.position.y
                 /\ after.position.x = front - BallOffset]_vars

\* C27: Ball.update(deltaTime) returns, for every state of a Match between
\* two ticks and every deltaTime >= 0: the calls of Ball.move within one tick
\* never exceed a fixed number, here MaxDepth, so that the loop that ticks
\* the Match is still running after every tick.
C27_TickTerminates == running

\* A ball at position lies outside the court: its rectangle has no point in
\* common with the court.
OutsideCourt(position) ==
    LET rect == getRectFromOffsetAndPos(position, BallOffset, BallOffset)
    IN  \/ rect.botY < 0
        \/ rect.topY > CourtHeight
        \/ rect.rightX < 0
        \/ rect.leftX > CourtWidth

\* The Game at r is in the registry or in the map of an identity.
Listed(S, r) ==
    \/ \E i \in 1..Len(S.games) : S.games[i].ref = r
    \/ \E u \in DOMAIN S.usersToGame : S.usersToGame[u] = r

\* C28: when the collision resolution of a tick gives the ball of a Match a
\* position outside the court, that Match is ended and taken out of the
\* registry, and nothing else changes: the loop goes on running, and every
\* other Match stays registered as it was.
C28_OnlyThatMatchEnds ==
    [][\A deltaTime \in TickLengths, r \in DOMAIN heap :
          (/\ Tick(deltaTime)
           /\ Listed(State, r)
           /\ heap[r].status = "PLAY"
           /\ \E c \in GameUpdate(heap[r], deltaTime) :
                 \E i \in 1..Len(c.resolved) : OutsideCourt(c.resolved[i])) =>
             /\ running'
             /\ ~Listed([games |-> games', usersToGame |-> usersToGame'], r)
             /\ \A x \in DOMAIN heap \ {r} :
                   Listed(State, x) =>
                      Listed([games |-> games', usersToGame |-> usersToGame'], x)]_vars

\* The points that make the score maxScore to 4 (10-4), or one more to 4.
PointsTo(n) ==
    {i \in Scores :
        /\ ScoreOf(out[i], out[i].who) = n
        /\ out[i].scoreA + out[i].scoreB = n + 4}

\* C29: a Match is in progress at 10-4, and the leading player's next point
\* ends it: the point that makes the score 10-4 does not set the status END,
\* and the point that makes it 11-4 sets END at once, the leading player the
\* winner.
C29_EndsAfterTenFour ==
    /\ \A i \in PointsTo(maxScore) :
          i + 1 \in StatusChanges => out[i + 1].to # "END"
    /\ \A i \in PointsTo(maxScore + 1) :
          /\ i + 1 \in StatusChanges
          /\ out[i + 1].to = "END"
          /\ out[i + 1].who = out[i].who

\* C29, amended: the point of the leading player that takes a Match from 9-4
\* to 10-4 sets the status END at once, the leading player the winner; no
\* BREAK is set for that point.
C29_TenthPointEnds ==
    \A i \in PointsTo(maxScore) :
        /\ i + 1 \in StatusChanges
        /\ out[i + 1].to = "END"
        /\ out[i + 1].who = out[i].who

\* A Match at 9-4 was in PLAY, and the leading player has scored.
C29_TenFour ==
    \E i \in PointsTo(maxScore) :
        /\ out[i].from = "PLAY"
        /\ i + 1 \in StatusChanges
        /\ out[i + 1].from = "PLAY"

\* C30: a message of an identity registered to a Match is relayed once, to
\* the room of that Match, with the sender attached, and only the two
\* players of that Match hear it; a message of an identity registered to no
\* Match is relayed to nobody.
C30_OnlyTheTwoPlayersHear ==
    [][\A u \in DOMAIN status :
          NewInGameMessage(u) =>
             IF usersToGame[u] = NoRef THEN out' = <<>>
             ELSE /\ Len(out') = 1
                  /\ out'[1].ev = "newInGameMessage"
                  /\ out'[1].who = u
                  /\ out'[1].id = heap[usersToGame[u]].id
                  /\ u \in PlayersOf(usersToGame[u])
                  /\ out'[1].heard \subseteq PlayersOf(usersToGame[u])]_vars

\* The length of the path through the positions of a sequence, in order.
RECURSIVE PathLength(_)
PathLength(positions) ==
    IF Len(positions) < 2 THEN 0
    ELSE distanceBetweenPositions(positions[2], positions[1])
           + PathLength(Tail(positions))

NewPaddlePosition(g, side, deltaTime) ==
    LET p == PaddleOf(g, side)
    IN  [x |-> p.position.x,
         y |-> p.position.y
                 + (IF p.movement = "UP" THEN -1 ELSE 1) * PaddleSpeed * deltaTime]

\* The near-boundary rule: the ball is on the side the paddle moves to, and
\* the paddle's new rectangle would leave the ball less than its side and
\* the margin to the wall.
NearBoundary(g, side, deltaTime) ==
    LET p == PaddleOf(g, side)
        newRect == getRectFromOffsetAndPos(NewPaddlePosition(g, side, deltaTime),
                                           PaddleXOffset, PaddleYOffset)
    IN  \/ /\ p.movement = "UP"
           /\ g.ball.position.y < p.position.y
           /\ newRect.topY < BallSideLength + PaddleLimitMargin
        \/ /\ p.movement = "DOWN"
           /\ g.ball.position.y >= p.position.y
           /\ newRect.botY > CourtHeight - BallSideLength - PaddleLimitMargin

\* The paddle of a side, moving, is asked into the ball that has passed its
\* line, and the near-boundary rule does not reject the move.
PushDue(g, side, deltaTime) ==
    /\ g.ball.passedPaddleLine
    /\ PaddleOf(g, side).movement # "NONE"
    /\ doesBallCollideWithPaddle(
          BallGetRect(g.ball),
          getRectFromOffsetAndPos(NewPaddlePosition(g, side, deltaTime),
                                  PaddleXOffset, PaddleYOffset))
    /\ ~NearBoundary(g, side, deltaTime)

\* The Game in which the paddle of a side is updated in Game.update: the
\* left paddle first, then the right.
BeforePaddle(g, side, deltaTime) ==
    IF side = "A" THEN g ELSE PaddleUpdate(g, "A", deltaTime)

\* C32: with passedPaddleLine true, the update of a paddle whose new
\* rectangle overlaps the ball's, not rejected by the near-boundary rule,
\* puts the paddle at its new position and the ball just outside the new
\* rectangle, above it for UP and below it for DOWN, at the x it had: the two
\* no longer overlap; and a moving paddle stays where it was only by the
\* near-boundary rule.
C32_BallYieldsToPaddle ==
    [][\A deltaTime \in TickLengths, r \in DOMAIN heap, side \in {"A", "B"} :
          LET before == BeforePaddle(heap[r], side, deltaTime)
              after == PaddleUpdate(before, side, deltaTime)
              paddle == PaddleGetRect(PaddleOf(after, side))
              ball == BallGetRect(after.ball)
              isUp == PaddleOf(before, side).movement = "UP"
          IN  (/\ Listed(State, r)
               /\ heap[r].status = "PLAY"
               /\ before.ball.passedPaddleLine
               /\ Tick(deltaTime)) =>
                 /\ PushDue(before, side, deltaTime) =>
                       /\ PaddleOf(after, side).position
                            = NewPaddlePosition(before, side, deltaTime)
                       /\ ~doesBallCollideWithPaddle(ball, paddle)
                       /\ after.ball.position.x = before.ball.position.x
                       /\ isUp => /\ ball.botY < paddle.topY
                                  /\ ball.botY >= paddle.topY - PushGap
                       /\ ~isUp => /\ ball.topY > paddle.botY
                                   /\ ball.topY <= paddle.botY + PushGap
                 /\ (/\ before.ball.passedPaddleLine
                     /\ PaddleOf(before, side).movement # "NONE"
                     /\ deltaTime > 0
                     /\ PaddleOf(after, side).position
                          = PaddleOf(before, side).position) =>
                       NearBoundary(before, side, deltaTime)]_vars

\* A Match in PLAY whose next tick pushes the ball: a paddle is asked into
\* the ball, and its update moves the ball out of the way.
C32_PaddleMeetsBall ==
    \E deltaTime \in TickLengths, r \in Registered, side \in {"A", "B"} :
        /\ out = <<>>
        /\ heap[r].status = "PLAY"
        /\ PushDue(heap[r], side, deltaTime)
        /\ PaddleUpdate(heap[r], side, deltaTime).ball.position.y
             # heap[r].ball.position.y

\* C33: no Match ever has the status PAUSE, and none is told to its room;
\* the disconnection of an identity leaves the status of every Match as it
\* was.
C33_NeverPaused ==
    /\ [](/\ \A r \in DOMAIN heap : heap[r].status # "PAUSE"
          /\ \A i \in StatusChanges : out[i].to # "PAUSE")
    /\ [][\A u \in DOMAIN status :
             Disconnect(u) =>
                \A r \in DOMAIN heap : heap'[r].status = heap[r].status]_vars

\* A player of a Match in PLAY has disconnected, and the Match is in PLAY.
C33_LeftMidMatch ==
    \E r \in Registered :
        /\ heap[r].status = "PLAY"
        /\ \E u \in PlayersOf(r) : status[u] = "OFFLINE" /\ usersToGame[u] = r

\* C34: the disconnection of the identity in the queue slot clears the slot;
\* no identity without a live socket is in the slot; a Match is made of the
\* identity that waits in the slot and the one that queues, both with a live
\* socket; and an identity that queues when the slot is empty waits in it,
\* and no Match is made.
C34_LeaverIsNotPaired ==
    /\ [](queue # Null => status[queue] # "OFFLINE")
    /\ [][\A u \in DOMAIN status :
             /\ (Disconnect(u) /\ queue = u) => queue' = Null
             /\ (Queue(u) /\ status[u] = "IDLE" /\ queue = Null) =>
                   queue' = u /\ heap' = heap]_vars
    /\ [][\A r \in DOMAIN heap' \ DOMAIN heap :
             /\ queue # Null
             /\ heap'[r].playerA = queue
             /\ status[heap'[r].playerA] # "OFFLINE"
             /\ status[heap'[r].playerB] # "OFFLINE"
             /\ Queue(heap'[r].playerB)]_vars

\* An identity waits in the slot while another, registered to no Match, has
\* no live socket.
C34_WaitsAlone ==
    /\ queue # Null
    /\ status[queue] = "QUEUE"
    /\ \E u \in DOMAIN status :
          u # queue /\ status[u] = "OFFLINE" /\ usersToGame[u] = NoRef

\* C35: two Matches registered at the same time with different players have
\* different ids; and a Match leaves games only in the step that ends it:
\* the creation of a Match takes no other out of games, and neither does the
\* end of another.
C35_IdsTellMatchesApart ==
    /\ [](\A r1, r2 \in DOMAIN heap :
             (/\ Listed(State, r1)
              /\ Listed(State, r2)
              /\ PlayersOf(r1) # PlayersOf(r2)) => heap[r1].id # heap[r2].id)
    /\ [][\A i \in 1..Len(games) :
             LET r == games[i].ref
             IN  \/ \E j \in 1..Len(games') : games'[j].ref = r
                 \/ \E j \in 1..Len(out') :
                       /\ out'[j].ev = "updatedGameStatus"
                       /\ out'[j].to = "END"
                       /\ out'[j].playerA = heap[r].playerA
                       /\ out'[j].playerB = heap[r].playerB]_vars

\* No Game object of S has one identity on both sides.
NoSelfMatch(S) ==
    \A r \in DOMAIN S.heap : S.heap[r].playerA # S.heap[r].playerB

\* C36: no Match has the same identity as its left and its right player;
\* and queueUser, called for any identity with a live socket, the one in the
\* slot included, makes no such Match.
C36_TwoDifferentPlayers ==
    /\ NoSelfMatch(State)
    /\ \A u \in DOMAIN status, r \in Refs \ DOMAIN heap, d \in getRandomDirection :
          status[u] # "OFFLINE" => NoSelfMatch(queueUser(State, u, r, d))

\* A Match has been made, and an identity waits in the slot again.
C36_PairedAndWaiting ==
    /\ queue # Null
    /\ \E r \in Registered : heap[r].playerA # queue /\ heap[r].playerB # queue

\* C37: an identity with a live socket has the status QUEUE exactly when it
\* is the one in the queue slot, after every handled event.
C37_QueueStatusIsTheSlot ==
    \A u \in DOMAIN status :
        status[u] # "OFFLINE" => (status[u] = "QUEUE" <=> queue = u)

\* An identity waits in the slot with the status QUEUE, beside two that
\* were handed to a Match and have the status GAME.
C37_OneWaitsTwoPlay ==
    /\ queue # Null
    /\ status[queue] = "QUEUE"
    /\ \E r \in Registered :
          \A u \in PlayersOf(r) : status[u] = "GAME" /\ u # queue

\* C38: the END broadcast is the last broadcast of a Match: a Match whose
\* status is END broadcasts neither a status change nor a position update.
C38_EndIsTheLastBroadcast ==
    \A i \in 1..Len(out) :
        out[i].ev \in {"updatedGameStatus", "updatedGamePositions"} =>
           out[i].from # "END"

\* The sign of a number.
Sign(n) == IF n > 0 THEN 1 ELSE IF n < 0 THEN -1 ELSE 0

\* C39: from the tick that sets passedPaddleLine, the flag stays set and
\* direction.x keeps its sign in every tick without a point; and the rally
\* goes on to its point: as long as the ball is past a paddle line, the
\* loop that ticks the Match is running.
C39_PastTheLineAPointFollows ==
    /\ [][\A r \in DOMAIN heap \cap DOMAIN heap' :
             (/\ heap[r].status = "PLAY"
              /\ heap[r].ball.passedPaddleLine
              /\ heap'[r].scoreA = heap[r].scoreA
              /\ heap'[r].scoreB = heap[r].scoreB) =>
                /\ heap'[r].ball.passedPaddleLine
                /\ Sign(heap'[r].ball.direction.x) = Sign(heap[r].ball.direction.x)]_vars
    /\ [](RallyPastLine => running)

====
